---- MODULE Spec2Model ----
(***************************************************************************)
(* Model of the RocksDB address index of hathor                            *)
(* (hathor/indexes/rocksdb_address_index.py, rocksdb_utils.py).            *)
(*                                                                         *)
(* Byte strings are sequences of naturals in 0..255, text strings are      *)
(* sequences of code points.  The ordered store is a set of keys iterated  *)
(* in ascending byte order.  A call that raises is recorded by the name of *)
(* the exception in the err field of its result.                           *)
(***************************************************************************)
EXTENDS Integers, Sequences, FiniteSets, TLC

(***************************************************************************)
(* Program constants                                                       *)
(***************************************************************************)
AddrLen == 34
TsLen == 4
HashLen == 32
KeyLen == AddrLen + TsLen + HashLen

\* Python's None, where a byte string is expected
None == <<-1>>

NoErr == "ok"

(***************************************************************************)
(* Byte strings                                                            *)
(***************************************************************************)
SetMin(S) == CHOOSE m \in S : \A o \in S : m <= o

\* bytes.__lt__, and the store's bytewise comparator
BytesLess(a, b) ==
    LET n == IF Len(a) < Len(b) THEN Len(a) ELSE Len(b)
        D == {i \in 1..n : a[i] # b[i]}
    IN  IF D = {} THEN Len(a) < Len(b)
        ELSE a[SetMin(D)] < b[SetMin(D)]

\* key[lo:hi] of Python, 0-based and half-open
Slice(s, lo, hi) == [i \in 1..(hi - lo) |-> s[lo + i]]

\* str.encode('ascii'): one byte per code point, UnicodeEncodeError above 127
EncodeAscii(s) ==
    IF \E i \in 1..Len(s) : s[i] > 127
    THEN [err |-> "UnicodeEncodeError", val |-> <<>>]
    ELSE [err |-> NoErr, val |-> [i \in 1..Len(s) |-> s[i] % 256]]

\* bytes.decode('ascii'): one code point per byte, UnicodeDecodeError above 127
DecodeAscii(b) ==
    IF \E i \in 1..Len(b) : b[i] > 127
    THEN [err |-> "UnicodeDecodeError", val |-> <<>>]
    ELSE [err |-> NoErr, val |-> [i \in 1..Len(b) |-> b[i]]]

\* the same with the least significant byte first ('<I')
PackUInt32LE(n) ==
    IF n < 0 \/ (n \div 65536) > 65535
    THEN [err |-> "struct.error", val |-> <<>>]
    ELSE [err |-> NoErr,
          val |-> << n % 256, (n \div 256) % 256,
                     (n \div 65536) % 256, (n \div 16777216) % 256 >>]

\* struct.pack('>I', n): 4 bytes, most significant first; struct.error
\* outside 0..2^32-1
PackUInt32(n) ==
    IF n < 0 \/ (n \div 65536) > 65535
    THEN [err |-> "struct.error", val |-> <<>>]
    ELSE [err |-> NoErr,
          val |-> << (n \div 16777216) % 256, (n \div 65536) % 256,
                     (n \div 256) % 256, n % 256 >>]

\* struct.unpack('>I', b)
UnpackUInt32(b) ==
    IF Len(b) # TsLen
    THEN [err |-> "struct.error", val |-> 0]
    ELSE [err |-> NoErr,
          val |-> ((b[1] * 256 + b[2]) * 256 + b[3]) * 256 + b[4]]

(***************************************************************************)
(* Key codec                                                               *)
(***************************************************************************)
\* A transaction reference that is not given (tx=None)
NoTx == [name |-> "None", hash |-> None, timestamp |-> 0,
         inputs |-> <<>>, outputs |-> <<>>]

\* _to_key(address, tx)
ToKey(address, tx) ==
    LET encoded == EncodeAscii(address)
        packed == PackUInt32(tx.timestamp)
    IN  IF Len(address) # AddrLen
        THEN [err |-> "AssertionError", val |-> <<>>]
        ELSE IF encoded.err # NoErr THEN [err |-> encoded.err, val |-> <<>>]
        ELSE IF tx = NoTx THEN [err |-> NoErr, val |-> encoded.val]
        ELSE IF tx.hash = None \/ Len(tx.hash) # HashLen
        THEN [err |-> "AssertionError", val |-> <<>>]
        ELSE IF packed.err # NoErr THEN [err |-> packed.err, val |-> <<>>]
        ELSE LET key == encoded.val \o packed.val \o tx.hash
             IN  IF Len(key) # AddrLen + TsLen + HashLen
                 THEN [err |-> "AssertionError", val |-> <<>>]
                 ELSE [err |-> NoErr, val |-> key]

NoTriple == [address |-> <<>>, timestamp |-> 0, tx_hash |-> <<>>]

\* _from_key reading the timestamp one byte late (key[35:39])
FromKeyShifted(key) ==
    IF Len(key) # AddrLen + TsLen + HashLen
    THEN [err |-> "AssertionError", val |-> NoTriple]
    ELSE [err |-> NoErr,
          val |-> [address |-> DecodeAscii(Slice(key, 0, AddrLen)).val,
                   timestamp |->
                       UnpackUInt32(Slice(key, AddrLen + 1,
                                          AddrLen + TsLen + 1)).val,
                   tx_hash |-> Slice(key, AddrLen + TsLen, Len(key))]]

\* _from_key(key)
FromKey(key) ==
    IF Len(key) # AddrLen + TsLen + HashLen
    THEN [err |-> "AssertionError", val |-> NoTriple]
    ELSE LET decoded == DecodeAscii(Slice(key, 0, AddrLen))
             unpacked == UnpackUInt32(Slice(key, AddrLen, AddrLen + TsLen))
             tx_hash == Slice(key, AddrLen + TsLen, Len(key))
         IN  IF decoded.err # NoErr
             THEN [err |-> decoded.err, val |-> NoTriple]
             ELSE IF unpacked.err # NoErr
             THEN [err |-> unpacked.err, val |-> NoTriple]
             ELSE IF Len(decoded.val) # AddrLen \/ Len(tx_hash) # HashLen
             THEN [err |-> "AssertionError", val |-> NoTriple]
             ELSE [err |-> NoErr,
                   val |-> [address |-> decoded.val,
                            timestamp |-> unpacked.val,
                            tx_hash |-> tx_hash]]

(***************************************************************************)
(* Bounds and the finite universe of addresses and transactions            *)
(***************************************************************************)
\* largest column family id the store hands out in a run of the model
MaxCfId == 3

\* 34-character addresses that differ in their last character
Addr(c) == [i \in 1..AddrLen |-> IF i = AddrLen THEN c ELSE 72]
AddrA == Addr(65)
AddrB == Addr(66)
AddrC == Addr(67)
Addresses == {AddrA, AddrB, AddrC}

\* 32-byte hashes: zero bytes except the last
Hash(n) == [i \in 1..HashLen |-> IF i = HashLen THEN n ELSE 0]

\* Output scripts: an address-bearing script or one that does not parse
P2PKH(a) == [parses |-> TRUE, address |-> a]
DataScript == [parses |-> FALSE, address |-> <<>>]

T1 == [name |-> "T1", hash |-> Hash(1), timestamp |-> 100,
       inputs |-> <<>>, outputs |-> <<[script |-> P2PKH(AddrA)]>>]
T2 == [name |-> "T2", hash |-> Hash(2), timestamp |-> 50,
       inputs |-> <<>>,
       outputs |-> <<[script |-> DataScript], [script |-> P2PKH(AddrA)]>>]
\* T3 spends the second output of T2, the one that pays to A
T3 == [name |-> "T3", hash |-> Hash(3), timestamp |-> 256,
       inputs |-> <<[tx_id |-> Hash(2), index |-> 1]>>,
       outputs |-> <<[script |-> P2PKH(AddrB)]>>]
T4 == [name |-> "T4", hash |-> Hash(4), timestamp |-> 256,
       inputs |-> <<>>,
       outputs |-> <<[script |-> P2PKH(AddrB)], [script |-> P2PKH(AddrB)]>>]
\* a transaction whose hash was never assigned
T5 == [name |-> "T5", hash |-> None, timestamp |-> 7,
       inputs |-> <<>>, outputs |-> <<[script |-> P2PKH(AddrA)]>>]
\* a transaction spending an output of a transaction the ledger does not hold
T6 == [name |-> "T6", hash |-> Hash(6), timestamp |-> 9,
       inputs |-> <<[tx_id |-> Hash(9), index |-> 0]>>,
       outputs |-> <<[script |-> P2PKH(AddrA)]>>]
Txs == {T1, T2, T3, T4, T5, T6}

\* tx.storage: the transactions the ledger store resolves
Storage == {T1, T2, T3, T4}

(***************************************************************************)
(* Address extraction                                                      *)
(***************************************************************************)
\* tx.storage.get_transaction(tx_id)
GetTransaction(tx_id) ==
    IF \E t \in Storage : t.hash = tx_id
    THEN [err |-> NoErr, val |-> CHOOSE t \in Storage : t.hash = tx_id]
    ELSE [err |-> "TransactionDoesNotExist", val |-> NoTx]

\* add_address_from_output without the test of what the parser returned
AddressFromOutputUnparsed(output) == {output.script.address}

\* parse_address_script(output.script), then add_address_from_output
AddressFromOutput(output) ==
    IF output.script.parses THEN {output.script.address} ELSE {}

\* the addresses of the outputs of tx alone
GetAddressesOutputsOnly(tx) ==
    [err |-> NoErr,
     val |-> UNION {AddressFromOutput(tx.outputs[o]) : o \in 1..Len(tx.outputs)}]

\* _get_addresses(tx)
GetAddresses(tx) ==
    LET tx2(i) == GetTransaction(tx.inputs[i].tx_id)
    IN  IF \E i \in 1..Len(tx.inputs) : tx2(i).err # NoErr
        THEN [err |-> "TransactionDoesNotExist", val |-> {}]
        ELSE IF \E i \in 1..Len(tx.inputs) :
               tx.inputs[i].index + 1 > Len(tx2(i).val.outputs)
        THEN [err |-> "IndexError", val |-> {}]
        ELSE [err |-> NoErr,
              val |-> UNION ({AddressFromOutput(
                                  tx2(i).val.outputs[tx.inputs[i].index + 1]) :
                              i \in 1..Len(tx.inputs)}
                             \cup
                             {AddressFromOutput(tx.outputs[o]) :
                              o \in 1..Len(tx.outputs)})]

\* the orders in which iterating a Python set may yield its elements
RECURSIVE Orders(_)
Orders(S) ==
    IF S = {} THEN {<<>>}
    ELSE UNION {{<<x>> \o rest : rest \in Orders(S \ {x})} : x \in S}

Range(seq) == {seq[i] : i \in 1..Len(seq)}

(***************************************************************************)
(* The ordered store: keys of a column family, iterated in byte order      *)
(***************************************************************************)
RECURSIVE SortKeys(_)
SortKeys(S) ==
    IF S = {} THEN <<>>
    ELSE LET m == CHOOSE k \in S : \A o \in S : o = k \/ BytesLess(k, o)
         IN  <<m>> \o SortKeys(S \ {m})

\* it = db.iterkeys(cf); it.seek(target): the keys from the first one that
\* is not smaller than target, in ascending order
IterSeek(keys, target) == SortKeys({k \in keys : ~BytesLess(k, target)})

\* it.get(): the key under the iterator.  On an iterator that is not valid
\* the store reads a key that is not there: the build yields the empty
\* byte string or the bytes of the seek target.
ItGet(it, target) == IF it # <<>> THEN {Head(it)} ELSE {<<>>, target}

\* a put that drops a key that is already stored
PutToggle(keys, key) ==
    IF key \in keys THEN keys \ {key} ELSE keys \cup {key}

\* db.put((cf, key), b'')
Put(keys, key) == keys \cup {key}

\* a delete that takes every entry of the address of the key with it
DeleteAddress(keys, key) ==
    {k \in keys : Slice(k, 0, AddrLen) # Slice(key, 0, AddrLen)}

\* db.delete((cf, key))
Delete(keys, key) == keys \ {key}

(***************************************************************************)
(* Column families of the shared store                                     *)
(***************************************************************************)
\* _CF_NAME_ADDRESS_INDEX, and the name an index built on RocksDBIndexUtils
\* passes to _fresh_cf
CfNameAddressIndex == "address-index"
CfNameOther == "other-index"
CfNames == {CfNameAddressIndex, CfNameOther}

\* db.get_column_family(name) of a name that has no column family
NoCf == [exists |-> FALSE, id |-> 0, keys |-> {}]

\* db.create_column_family(name, options): fails when the name is taken;
\* the store numbers column families upwards and never hands out an id again
CreateColumnFamily(column_families, max_id, name) ==
    IF column_families[name].exists
    THEN [err |-> "RocksIOError", column_families |-> column_families,
          cf |-> NoCf]
    ELSE LET created == [exists |-> TRUE, id |-> max_id + 1, keys |-> {}]
         IN  [err |-> NoErr,
              column_families |-> [column_families EXCEPT ![name] = created],
              cf |-> created]

\* a drop that leaves the partition in place
DropColumnFamilyNoop(column_families, name) == column_families

\* db.drop_column_family(cf): the partition and all its keys are gone
DropColumnFamily(column_families, name) ==
    [column_families EXCEPT ![name] = NoCf]

\* RocksDBIndexUtils._fresh_cf(cf_name)
FreshCf(column_families, max_id, cf_name) ==
    LET old == column_families[cf_name]
        dropped == IF old.exists
                   THEN DropColumnFamily(column_families, cf_name)
                   ELSE column_families
        created == CreateColumnFamily(dropped, max_id, cf_name)
    IN  IF created.err # NoErr
        THEN [err |-> created.err, families |-> created.column_families,
              cf |-> NoCf]
        ELSE IF old.exists /\ created.cf.id = old.id
        THEN [err |-> "AssertionError", families |-> created.column_families,
              cf |-> NoCf]
        ELSE [err |-> NoErr, families |-> created.column_families,
              cf |-> created.cf]

\* RocksDBAddressIndex._reset_cf(), on self._cf_name; cf is self._cf
ResetCf(column_families, max_id, self_cf) ==
    LET old == column_families[CfNameAddressIndex]
        dropped == IF old.exists
                   THEN DropColumnFamily(column_families, CfNameAddressIndex)
                   ELSE column_families
        created == CreateColumnFamily(dropped, max_id, CfNameAddressIndex)
    IN  IF created.err # NoErr
        THEN [err |-> created.err, families |-> created.column_families,
              cf |-> self_cf]
        ELSE IF old.exists /\ created.cf.id = old.id
        THEN [err |-> "AssertionError", families |-> created.column_families,
              cf |-> self_cf]
        ELSE [err |-> NoErr, families |-> created.column_families,
              cf |-> created.cf]

\* the largest id among the column families, the store's counter after a call
MaxId(column_families, max_id) ==
    IF \E n \in CfNames : column_families[n].id > max_id
    THEN CHOOSE i \in {column_families[n].id : n \in CfNames} :
             \A n \in CfNames : column_families[n].id <= i
    ELSE max_id

(***************************************************************************)
(* Effects of a call, in the order in which the call makes them            *)
(***************************************************************************)
PutEffect(address, key, tx) ==
    [kind |-> "put", address |-> address, key |-> key, tx |-> tx.name]
DeleteEffect(address, key, tx) ==
    [kind |-> "delete", address |-> address, key |-> key, tx |-> tx.name]
PublishEffect(address, tx) ==
    [kind |-> "publish", address |-> address, key |-> <<>>, tx |-> tx.name]

\* the keys of the column family after the store calls of a trace
RECURSIVE ApplyTrace(_, _)
ApplyTrace(keys, effects) ==
    IF effects = <<>> THEN keys
    ELSE LET e == Head(effects)
         IN  ApplyTrace(IF e.kind = "put" THEN Put(keys, e.key)
                        ELSE IF e.kind = "delete" THEN Delete(keys, e.key)
                        ELSE keys,
                        Tail(effects))

\* addresses=None of publish_tx
NoAddresses == [given |-> FALSE, seq |-> <<>>]
Given(order) == [given |-> TRUE, seq |-> order]

\* for address in addresses: self.pubsub.publish(WALLET_ADDRESS_HISTORY, ...)
RECURSIVE PublishLoop(_, _)
PublishLoop(order, tx) ==
    IF order = <<>> THEN <<>>
    ELSE <<PublishEffect(Head(order), tx)>> \o PublishLoop(Tail(order), tx)

\* publish_tx publishing only for the addresses of the outputs of tx
PublishTxOutputsOnly(tx, addresses, order, hasPubsub) ==
    IF ~hasPubsub THEN [err |-> NoErr, trace |-> <<>>]
    ELSE [err |-> NoErr,
          trace |-> PublishLoop(
              SelectSeq(order,
                        LAMBDA a : a \in GetAddressesOutputsOnly(tx).val),
              tx)]

\* publish_tx without the test for an event bus
PublishTxAlways(tx, addresses, order, hasPubsub) ==
    LET computed == GetAddresses(tx)
    IN  IF ~addresses.given
        THEN IF computed.err # NoErr
             THEN [err |-> computed.err, trace |-> <<>>]
             ELSE [err |-> NoErr, trace |-> PublishLoop(order, tx)]
        ELSE [err |-> NoErr, trace |-> PublishLoop(addresses.seq, tx)]

\* publish_tx(tx, addresses=...); order is the order in which a freshly
\* computed address set is iterated
PublishTx(tx, addresses, order, hasPubsub) ==
    LET computed == GetAddresses(tx)
    IN  IF ~hasPubsub THEN [err |-> NoErr, trace |-> <<>>]
        ELSE IF ~addresses.given
        THEN IF computed.err # NoErr
             THEN [err |-> computed.err, trace |-> <<>>]
             ELSE [err |-> NoErr, trace |-> PublishLoop(order, tx)]
        ELSE [err |-> NoErr, trace |-> PublishLoop(addresses.seq, tx)]

\* for address in addresses: self._db.put((self._cf, self._to_key(address, tx)), b'')
RECURSIVE PutLoop(_, _)
PutLoop(order, tx) ==
    IF order = <<>> THEN [err |-> NoErr, trace |-> <<>>]
    ELSE LET key == ToKey(Head(order), tx)
         IN  IF key.err # NoErr THEN [err |-> key.err, trace |-> <<>>]
             ELSE LET rest == PutLoop(Tail(order), tx)
                  IN  [err |-> rest.err,
                       trace |-> <<PutEffect(Head(order), key.val, tx)>>
                                 \o rest.trace]

\* for address in addresses: self._db.delete((self._cf, self._to_key(address, tx)))
RECURSIVE DeleteLoop(_, _)
DeleteLoop(order, tx) ==
    IF order = <<>> THEN [err |-> NoErr, trace |-> <<>>]
    ELSE LET key == ToKey(Head(order), tx)
         IN  IF key.err # NoErr THEN [err |-> key.err, trace |-> <<>>]
             ELSE LET rest == DeleteLoop(Tail(order), tx)
                  IN  [err |-> rest.err,
                       trace |-> <<DeleteEffect(Head(order), key.val, tx)>>
                                 \o rest.trace]

\* add_tx with each address published right after its insertion
RECURSIVE PutPublishLoop(_, _)
PutPublishLoop(order, tx) ==
    IF order = <<>> THEN <<>>
    ELSE <<PutEffect(Head(order), ToKey(Head(order), tx).val, tx),
           PublishEffect(Head(order), tx)>> \o PutPublishLoop(Tail(order), tx)

AddTxCallInterleaved(tx, order, hasPubsub) ==
    LET addresses == GetAddresses(tx)
    IN  IF tx.hash = None THEN [err |-> "AssertionError", trace |-> <<>>]
        ELSE IF addresses.err # NoErr
        THEN [err |-> addresses.err, trace |-> <<>>]
        ELSE IF ~hasPubsub THEN PutLoop(order, tx)
        ELSE [err |-> NoErr, trace |-> PutPublishLoop(order, tx)]

\* add_tx inserting the entries of the outputs of tx before it resolves
\* the inputs
AddTxCallOutputsFirst(tx, order, hasPubsub) ==
    LET addresses == GetAddresses(tx)
        early == PutLoop(CHOOSE o \in Orders(GetAddressesOutputsOnly(tx).val) :
                             TRUE, tx)
        puts == PutLoop(order, tx)
        pub == PublishTx(tx, Given(order), order, hasPubsub)
    IN  IF tx.hash = None THEN [err |-> "AssertionError", trace |-> <<>>]
        ELSE IF addresses.err # NoErr
        THEN [err |-> addresses.err, trace |-> early.trace]
        ELSE IF puts.err # NoErr THEN puts
        ELSE [err |-> pub.err, trace |-> puts.trace \o pub.trace]

\* add_tx without its assertion, publishing before it inserts
AddTxCallPublishFirst(tx, order, hasPubsub) ==
    LET addresses == GetAddresses(tx)
        puts == PutLoop(order, tx)
        pub == PublishTx(tx, Given(order), order, hasPubsub)
    IN  IF addresses.err # NoErr
        THEN [err |-> addresses.err, trace |-> <<>>]
        ELSE [err |-> puts.err, trace |-> pub.trace \o puts.trace]

\* add_tx(tx); order is the order in which the address set is iterated
AddTxCall(tx, order, hasPubsub) ==
    LET addresses == GetAddresses(tx)
        puts == PutLoop(order, tx)
        pub == PublishTx(tx, Given(order), order, hasPubsub)
    IN  IF tx.hash = None THEN [err |-> "AssertionError", trace |-> <<>>]
        ELSE IF addresses.err # NoErr
        THEN [err |-> addresses.err, trace |-> <<>>]
        ELSE IF puts.err # NoErr THEN puts
        ELSE [err |-> pub.err, trace |-> puts.trace \o pub.trace]

\* remove_tx announcing the removal like add_tx announces the insertion
RemoveTxCallPublishing(tx, order) ==
    LET addresses == GetAddresses(tx)
        deletes == DeleteLoop(order, tx)
    IN  IF tx.hash = None THEN [err |-> "AssertionError", trace |-> <<>>]
        ELSE IF addresses.err # NoErr
        THEN [err |-> addresses.err, trace |-> <<>>]
        ELSE IF deletes.err # NoErr THEN deletes
        ELSE [err |-> NoErr, trace |-> deletes.trace \o PublishLoop(order, tx)]

\* remove_tx(tx)
RemoveTxCall(tx, order) ==
    LET addresses == GetAddresses(tx)
    IN  IF tx.hash = None THEN [err |-> "AssertionError", trace |-> <<>>]
        ELSE IF addresses.err # NoErr
        THEN [err |-> addresses.err, trace |-> <<>>]
        ELSE DeleteLoop(order, tx)

(***************************************************************************)
(* Queries                                                                 *)
(***************************************************************************)
\* the loop without its break at the first key of another address
RECURSIVE IterLoopNoBreak(_, _)
IterLoopNoBreak(it, address) ==
    IF it = <<>> THEN [err |-> NoErr, val |-> <<>>]
    ELSE LET d == FromKey(Head(it))
         IN  IF d.err # NoErr THEN [err |-> d.err, val |-> <<>>]
             ELSE LET rest == IterLoopNoBreak(Tail(it), address)
                  IN  [err |-> rest.err,
                       val |-> <<d.val.tx_hash>> \o rest.val]

\* for key in it: addr, _, tx_hash = self._from_key(key) ... yield tx_hash
RECURSIVE IterLoop(_, _)
IterLoop(it, address) ==
    IF it = <<>> THEN [err |-> NoErr, val |-> <<>>]
    ELSE LET d == FromKey(Head(it))
         IN  IF d.err # NoErr THEN [err |-> d.err, val |-> <<>>]
             ELSE IF d.val.address # address THEN [err |-> NoErr, val |-> <<>>]
             ELSE LET rest == IterLoop(Tail(it), address)
                  IN  [err |-> rest.err,
                       val |-> <<d.val.tx_hash>> \o rest.val]

\* _get_from_address_iter(address), collected into a list
GetFromAddressIter(keys, address) ==
    LET target == ToKey(address, NoTx)
    IN  IF target.err # NoErr THEN [err |-> target.err, val |-> <<>>]
        ELSE IterLoop(IterSeek(keys, target.val), address)

\* is_address_empty(address), key being what it.get() returned
IsAddressEmptyCall(address, key) ==
    LET decoded == FromKey(key)
    IN  IF decoded.err # NoErr THEN [err |-> decoded.err, val |-> FALSE]
        ELSE [err |-> NoErr, val |-> (decoded.val.address = address)]

\* the keys it.get() may return after it.seek(self._to_key(address))
IsAddressEmptyKeys(keys, address) ==
    LET target == ToKey(address, NoTx)
    IN  ItGet(IterSeek(keys, target.val), target.val)

(***************************************************************************)
(* Transaction metadata and the handler of the subscribed events           *)
(***************************************************************************)
\* the transactions whose voided and winner events the bus delivers
EventTxs == {T1, T3}
EventTxNames == {t.name : t \in EventTxs}

\* tx.get_metadata(): a latch for voided_by and one for spent_by, set when
\* the field changes and cleared by the call that reads it
NoChange == [voided_by |-> FALSE, spent_by |-> FALSE]

\* meta.has_voided_by_changed_since_last_call()
HasVoidedByChangedSinceLastCall(m) ==
    [val |-> m.voided_by, meta |-> [m EXCEPT !.voided_by = FALSE]]

\* meta.has_spent_by_changed_since_last_call()
HasSpentByChangedSinceLastCall(m) ==
    [val |-> m.spent_by, meta |-> [m EXCEPT !.spent_by = FALSE]]

\* a handler that publishes at every delivery
HandleTxEventCallAlways(tx, m, order, hasPubsub) ==
    LET voided == HasVoidedByChangedSinceLastCall(m)
        spent == HasSpentByChangedSinceLastCall(voided.meta)
        pub == PublishTx(tx, NoAddresses, order, hasPubsub)
    IN  [err |-> pub.err, trace |-> pub.trace, meta |-> spent.meta]

\* handle_tx_event(key, args) with args.tx = tx and m = tx.get_metadata();
\* Python's or does not evaluate its right operand when the left one is true
HandleTxEventCall(tx, m, order, hasPubsub) ==
    LET voided == HasVoidedByChangedSinceLastCall(m)
        spent == HasSpentByChangedSinceLastCall(voided.meta)
        pub == PublishTx(tx, NoAddresses, order, hasPubsub)
    IN  IF voided.val
        THEN [err |-> pub.err, trace |-> pub.trace, meta |-> voided.meta]
        ELSE IF spent.val
        THEN [err |-> pub.err, trace |-> pub.trace, meta |-> spent.meta]
        ELSE [err |-> NoErr, trace |-> <<>>, meta |-> spent.meta]

(***************************************************************************)
(* State                                                                   *)
(***************************************************************************)
VARIABLES
    families,     \* the column families of the store, by name
    max_cf_id,    \* the largest column family id the store has handed out
    cf,           \* self._cf, the handle of the index
    pubsub,       \* whether an event bus was given to the index
    subscribed,   \* the event kinds handle_tx_event is subscribed to
    lastOp,       \* the last call
    repeated,     \* whether the last call repeats the call before it
    ret,          \* what the last call returned or raised
    trace,        \* the store calls and publications of the last call
    keysBefore,   \* the keys of the index before the last call
    added,        \* the transactions whose last call on the index was add_tx
    meta,         \* the change latches of the metadata of each transaction
    codec         \* a key codec computation: its inputs and results

indexVars == <<families, max_cf_id, cf, pubsub, subscribed, lastOp, repeated,
               ret, trace, keysBefore, added, meta>>
vars == <<families, max_cf_id, cf, pubsub, subscribed, lastOp, repeated, ret,
          trace, keysBefore, added, meta, codec>>

\* the keys stored in the column family of the index
Keys == families[CfNameAddressIndex].keys

Op(name, tx, address) == [op |-> name, tx |-> tx, address |-> address]

\* HathorEvents the index subscribes to
SubscribedEvents == {"STORAGE_TX_VOIDED", "STORAGE_TX_WINNER"}

\* subscribe_pubsub_events()
SubscribePubsubEvents(hasPubsub) ==
    IF hasPubsub THEN SubscribedEvents ELSE {}

Remember(op) ==
    /\ repeated' = (op = lastOp)
    /\ lastOp' = op
    /\ keysBefore' = Keys

NoResult == [err |-> NoErr, val |-> <<>>]
NoCodec == [address |-> <<>>, hash |-> <<>>, timestamp |-> 0,
            timestamp2 |-> 0, stage |-> "none", key |-> NoResult,
            decoded |-> [err |-> NoErr, val |-> NoTriple],
            packed |-> <<>>]

\* RocksDBAddressIndex(db, pubsub=...) on a store without the column family
IndexInit ==
    /\ \E p \in BOOLEAN :
         /\ pubsub = p
         /\ subscribed = SubscribePubsubEvents(p)
    /\ families = ResetCf([n \in CfNames |-> NoCf], 0, NoCf).families
    /\ cf = ResetCf([n \in CfNames |-> NoCf], 0, NoCf).cf
    /\ max_cf_id = MaxId(families, 0)
    /\ lastOp = Op("__init__", "", <<>>)
    /\ repeated = FALSE
    /\ ret = NoResult
    /\ trace = <<>>
    /\ keysBefore = {}
    /\ added = {}
    /\ meta = [t \in EventTxNames |-> NoChange]

Init == IndexInit /\ codec = NoCodec

\* The node restarts and builds the index again on the same store:
\* __init__ runs _reset_cf and subscribes when an event bus is given
Construct(p) ==
    /\ max_cf_id < MaxCfId
    /\ \E r \in {ResetCf(families, max_cf_id, cf)} :
           /\ families' = r.families
           /\ cf' = r.cf
           /\ max_cf_id' = MaxId(r.families, max_cf_id)
           /\ ret' = [err |-> r.err, val |-> <<>>]
           /\ pubsub' = (r.err = NoErr /\ p)
           /\ subscribed' = SubscribePubsubEvents(r.err = NoErr /\ p)
           /\ added' = IF r.err = NoErr THEN {} ELSE added
    /\ trace' = <<>>
    /\ Remember(Op("__init__", "", <<>>))
    /\ UNCHANGED <<meta, codec>>

\* Another index opens its column family with _fresh_cf
FreshCfOther ==
    /\ max_cf_id < MaxCfId
    /\ \E r \in {FreshCf(families, max_cf_id, CfNameOther)} :
           /\ families' = r.families
           /\ max_cf_id' = MaxId(r.families, max_cf_id)
           /\ ret' = [err |-> r.err, val |-> <<>>]
    /\ trace' = <<>>
    /\ Remember(Op("_fresh_cf", "", <<>>))
    /\ UNCHANGED <<cf, pubsub, subscribed, added, meta, codec>>

AddTx(tx) ==
    /\ \E order \in Orders(GetAddresses(tx).val) :
         \E r \in {AddTxCall(tx, order, pubsub)} :
             /\ families' = [families EXCEPT ![CfNameAddressIndex].keys =
                                 ApplyTrace(Keys, r.trace)]
             /\ trace' = r.trace
             /\ ret' = [err |-> r.err, val |-> <<>>]
             /\ added' = IF r.err = NoErr THEN added \cup {tx.name}
                          ELSE added
    /\ Remember(Op("add_tx", tx.name, <<>>))
    /\ UNCHANGED <<max_cf_id, cf, pubsub, subscribed, meta, codec>>

RemoveTx(tx) ==
    /\ \E order \in Orders(GetAddresses(tx).val) :
         \E r \in {RemoveTxCall(tx, order)} :
             /\ families' = [families EXCEPT ![CfNameAddressIndex].keys =
                                 ApplyTrace(Keys, r.trace)]
             /\ trace' = r.trace
             /\ ret' = [err |-> r.err, val |-> <<>>]
             /\ added' = IF r.err = NoErr THEN added \ {tx.name} ELSE added
    /\ Remember(Op("remove_tx", tx.name, <<>>))
    /\ UNCHANGED <<max_cf_id, cf, pubsub, subscribed, meta, codec>>

GetFromAddress(address) ==
    /\ ret' = GetFromAddressIter(Keys, address)
    /\ trace' = <<>>
    /\ Remember(Op("get_from_address", "", address))
    /\ UNCHANGED <<families, max_cf_id, cf, pubsub, subscribed, added, meta,
                   codec>>

\* get_sorted_from_address sorting what it found by hash
GetSortedFromAddressByHash(address) ==
    /\ \E r \in {GetFromAddressIter(Keys, address)} :
         ret' = [err |-> r.err, val |-> SortKeys(Range(r.val))]
    /\ trace' = <<>>
    /\ Remember(Op("get_sorted_from_address", "", address))
    /\ UNCHANGED <<families, max_cf_id, cf, pubsub, subscribed, added, meta,
                   codec>>

GetSortedFromAddress(address) ==
    /\ ret' = GetFromAddressIter(Keys, address)
    /\ trace' = <<>>
    /\ Remember(Op("get_sorted_from_address", "", address))
    /\ UNCHANGED <<families, max_cf_id, cf, pubsub, subscribed, added, meta,
                   codec>>

IsAddressEmpty(address) ==
    /\ \E key \in IsAddressEmptyKeys(Keys, address) :
         ret' = IsAddressEmptyCall(address, key)
    /\ trace' = <<>>
    /\ Remember(Op("is_address_empty", "", address))
    /\ UNCHANGED <<families, max_cf_id, cf, pubsub, subscribed, added, meta,
                   codec>>

Next ==
    \/ \E p \in BOOLEAN : Construct(p)
    \/ FreshCfOther
    \/ \E tx \in Txs : AddTx(tx)
    \/ \E tx \in Txs : RemoveTx(tx)
    \/ \E address \in Addresses : GetFromAddress(address)
    \/ \E address \in Addresses : GetSortedFromAddress(address)
    \/ \E address \in Addresses : IsAddressEmpty(address)

Spec == Init /\ [][Next]_vars

(***************************************************************************)
(* The index with the event bus: metadata changes and event deliveries     *)
(***************************************************************************)
\* the consensus changes voided_by of tx
VoidedByChanges(tx) ==
    /\ meta' = [meta EXCEPT ![tx.name].voided_by = TRUE]
    /\ ret' = NoResult
    /\ trace' = <<>>
    /\ Remember(Op("voided_by", tx.name, <<>>))
    /\ UNCHANGED <<families, max_cf_id, cf, pubsub, subscribed, added, codec>>

\* the consensus changes spent_by of tx
SpentByChanges(tx) ==
    /\ meta' = [meta EXCEPT ![tx.name].spent_by = TRUE]
    /\ ret' = NoResult
    /\ trace' = <<>>
    /\ Remember(Op("spent_by", tx.name, <<>>))
    /\ UNCHANGED <<families, max_cf_id, cf, pubsub, subscribed, added, codec>>

\* the bus delivers an event of a subscribed kind about tx to handle_tx_event
HandleTxEvent(event, tx) ==
    /\ event \in subscribed
    /\ \E order \in Orders(GetAddresses(tx).val) :
         \E r \in {HandleTxEventCall(tx, meta[tx.name], order, pubsub)} :
             /\ meta' = [meta EXCEPT ![tx.name] = r.meta]
             /\ trace' = r.trace
             /\ ret' = [err |-> r.err, val |-> <<>>]
    /\ Remember(Op("handle_tx_event", tx.name, <<>>))
    /\ UNCHANGED <<families, max_cf_id, cf, pubsub, subscribed, added, codec>>

NextEvents ==
    \/ \E p \in BOOLEAN : Construct(p)
    \/ \E tx \in EventTxs : AddTx(tx)
    \/ \E tx \in EventTxs : RemoveTx(tx)
    \/ \E tx \in EventTxs : VoidedByChanges(tx)
    \/ \E tx \in EventTxs : SpentByChanges(tx)
    \/ \E event \in SubscribedEvents, tx \in EventTxs : HandleTxEvent(event, tx)

SpecEvents == Init /\ [][NextEvents]_vars

(***************************************************************************)
(* The key codec on its own: inputs drawn from bounded sets                *)
(***************************************************************************)
\* an address of 34 different characters, and one at the end of ASCII
AddrMixed == [i \in 1..AddrLen |-> 48 + i]
AddrDel == [i \in 1..AddrLen |-> IF i = 1 THEN 127 ELSE 49]
CodecAddresses == {AddrA, AddrMixed, AddrDel}

HashMixed == [i \in 1..HashLen |-> 256 - i]
CodecHashes == {Hash(1), HashMixed}

\* timestamps around the byte boundaries, up to 2^31 - 1, the largest
\* integer TLC represents
CodecTimestamps ==
    {0, 1, 50, 100, 255, 256, 65535, 65536, 16777215, 16777216, 2147483647}

\* the reference a key is built from: tx.hash and tx.timestamp
Reference(hash, timestamp) ==
    [name |-> "R", hash |-> hash, timestamp |-> timestamp,
     inputs |-> <<>>, outputs |-> <<>>]

InitCodec ==
    /\ IndexInit
    /\ \E a \in CodecAddresses, h \in CodecHashes :
       \E t1 \in CodecTimestamps, t2 \in CodecTimestamps :
         codec = [NoCodec EXCEPT !.address = a, !.hash = h, !.timestamp = t1,
                                 !.timestamp2 = t2, !.stage = "input"]

\* key = self._to_key(address, tx)
Encode ==
    /\ codec.stage = "input"
    /\ codec' = [codec EXCEPT
                   !.key = ToKey(codec.address,
                                 Reference(codec.hash, codec.timestamp)),
                   !.stage = "encoded"]
    /\ UNCHANGED indexVars

\* self._from_key(key)
Decode ==
    /\ codec.stage = "encoded"
    /\ codec.key.err = NoErr
    /\ codec' = [codec EXCEPT !.decoded = FromKey(codec.key.val),
                              !.stage = "decoded"]
    /\ UNCHANGED indexVars

\* struct.pack('>I', timestamp) of the two timestamps
PackTimestamps ==
    /\ codec.stage # "none"
    /\ codec.packed = <<>>
    /\ codec' = [codec EXCEPT
                   !.packed = <<PackUInt32(codec.timestamp),
                                PackUInt32(codec.timestamp2)>>]
    /\ UNCHANGED indexVars

NextCodec == Encode \/ Decode \/ PackTimestamps

SpecCodec == InitCodec /\ [][NextCodec]_vars

(***************************************************************************)
(* Properties                                                              *)
(***************************************************************************)
\* the transaction of a name, and the bytes of an address
TxOf(name) == CHOOSE t \in Txs : t.name = name
AddressOfKey(key) == Slice(key, 0, AddrLen)
HashOfKey(key) == Slice(key, AddrLen + TsLen, KeyLen)
KeysOfAddress(keys, address) == {k \in keys : AddressOfKey(k) = address}

\* C1: in every reachable state and for every address a,
\* is_address_empty(a) returns true if and only if no stored key has the
\* address component a (true before any add_tx of a transaction with a,
\* false right after one).
C1_EmptyIffNoKey ==
    lastOp.op = "is_address_empty" =>
        /\ ret.err = NoErr
        /\ ret.val = (KeysOfAddress(Keys, lastOp.address) = {})

\* C2: is_address_empty(a) does not fail when the seek finds no key (the
\* keyspace is empty, or every stored key sorts before the prefix of a):
\* it returns true.
C2_SeekPastEndReportsEmpty ==
    (/\ lastOp.op = "is_address_empty"
     /\ \A k \in Keys : BytesLess(k, EncodeAscii(lastOp.address).val)) =>
        /\ ret.err = NoErr
        /\ ret.val = TRUE

\* C3: get_from_address(A) returns exactly the hashes of the stored entries
\* whose address component is A, none stored only under another address,
\* in ascending order of timestamp and, for equal timestamps, of hash.
C3_PrefixScan ==
    lastOp.op = "get_from_address" =>
        LET owners == {t \in Storage :
                         \E k \in KeysOfAddress(Keys, lastOp.address) :
                             HashOfKey(k) = t.hash}
            txAt(i) == CHOOSE t \in Storage : t.hash = ret.val[i]
        IN  /\ ret.err = NoErr
            /\ Len(ret.val) = Cardinality(KeysOfAddress(Keys, lastOp.address))
            /\ {ret.val[i] : i \in 1..Len(ret.val)} = {t.hash : t \in owners}
            /\ \A i, j \in 1..Len(ret.val) :
                 i < j =>
                   \/ txAt(i).timestamp < txAt(j).timestamp
                   \/ /\ txAt(i).timestamp = txAt(j).timestamp
                      /\ BytesLess(ret.val[i], ret.val[j])

\* get_from_address(A) while A holds T2 (timestamp 50), T1 (100) and T3
\* (256) and B holds entries too
C3_Witness ==
    /\ lastOp = Op("get_from_address", "", AddrA)
    /\ ret.val = <<T2.hash, T1.hash, T3.hash>>
    /\ Cardinality(KeysOfAddress(Keys, AddrB)) = 2

\* C4: add_tx is idempotent on the index state: the stored keys after
\* add_tx(tx); add_tx(tx) are the stored keys after a single add_tx(tx).
C4_AddTxIdempotent ==
    (lastOp.op = "add_tx" /\ repeated) => Keys = keysBefore

\* add_tx(T3) right after add_tx(T3): both entries were put again
C4_Witness ==
    /\ lastOp = Op("add_tx", "T3", <<>>)
    /\ repeated
    /\ ret.err = NoErr
    /\ Len(trace) >= 2
    /\ Cardinality(Keys) >= 3

\* C5: for every transaction tx and every address a of tx without entries
\* of other transactions, is_address_empty(a) after add_tx(tx) followed by
\* remove_tx(tx) returns the value it returned before the add_tx(tx).
\* (Stated for an address without any entry before the add_tx; keysBefore
\* is then the index before the add_tx and Keys' the index after the
\* remove_tx.)
C5_RemoveRestoresEmptiness ==
    [][\A tx \in Txs, a \in Addresses :
         (/\ lastOp = Op("add_tx", tx.name, <<>>)
          /\ lastOp' = Op("remove_tx", tx.name, <<>>)
          /\ ret.err = NoErr
          /\ ret'.err = NoErr
          /\ a \in GetAddresses(tx).val
          /\ KeysOfAddress(keysBefore, a) = {}) =>
            \A k0 \in IsAddressEmptyKeys(keysBefore, a),
               k1 \in IsAddressEmptyKeys(Keys', a) :
                /\ IsAddressEmptyCall(a, k0).err = NoErr
                /\ IsAddressEmptyCall(a, k1) = IsAddressEmptyCall(a, k0)]_vars

\* C6: for every 34-character ASCII address a and every reference r with a
\* 32-byte hash and a 32-bit timestamp, the encoded key is 70 bytes long and
\* decode(encode(a, r)) = (a, r.timestamp, r.hash).
C6_CodecRoundTrip ==
    /\ codec.stage \in {"encoded", "decoded"} =>
         /\ codec.key.err = NoErr
         /\ Len(codec.key.val) = 70
    /\ codec.stage = "decoded" =>
         /\ codec.decoded.err = NoErr
         /\ codec.decoded.val.address = codec.address
         /\ codec.decoded.val.timestamp = codec.timestamp
         /\ codec.decoded.val.tx_hash = codec.hash

\* a key of mixed characters, a timestamp of four non-zero bytes and a hash
\* of 32 different bytes, encoded and decoded
C6_Witness ==
    /\ codec.stage = "decoded"
    /\ codec.address = AddrMixed
    /\ codec.timestamp = 2147483647
    /\ codec.hash = HashMixed
    /\ codec.decoded.val.timestamp = 2147483647

\* C7: the 4-byte big-endian encoding of timestamps preserves order: for
\* t1 < t2 the encoding of t1 is smaller than the encoding of t2 in
\* byte-lexicographic order.
C7_TimestampOrderPreserved ==
    (codec.packed # <<>> /\ codec.timestamp < codec.timestamp2) =>
        /\ codec.packed[1].err = NoErr
        /\ codec.packed[2].err = NoErr
        /\ Len(codec.packed[1].val) = 4
        /\ Len(codec.packed[2].val) = 4
        /\ BytesLess(codec.packed[1].val, codec.packed[2].val)

\* 255 and 256 packed: the smaller one has the larger last byte
C7_Witness ==
    /\ codec.packed # <<>>
    /\ codec.timestamp = 255
    /\ codec.timestamp2 = 256
    /\ codec.packed[1].val[4] > codec.packed[2].val[4]

\* C8: opening the keyspace again under the same name yields a handle with
\* another identity and a keyspace without entries, also when entries were
\* inserted after the first open: every open drops the existing partition
\* of that name before it creates the new one.
C8_FreshKeyspace ==
    [][/\ lastOp'.op = "__init__" =>
            /\ ret'.err = NoErr
            /\ Keys' = {}
            /\ cf' = families'[CfNameAddressIndex]
            /\ cf'.exists
            /\ cf'.id # cf.id
            /\ \A n \in CfNames : families'[n].exists =>
                   families'[n].id # families[CfNameAddressIndex].id
       /\ lastOp'.op = "_fresh_cf" =>
            /\ ret'.err = NoErr
            /\ families'[CfNameOther].exists
            /\ families'[CfNameOther].keys = {}
            /\ families'[CfNameOther].id # families[CfNameOther].id
            /\ \A n \in CfNames : families'[n].id = families[CfNameOther].id
                   => ~families[CfNameOther].exists
            /\ families'[CfNameAddressIndex] = families[CfNameAddressIndex]
      ]_vars

\* the index opened a second time on a keyspace that held entries
C8_Witness ==
    /\ lastOp.op = "__init__"
    /\ keysBefore # {}
    /\ Keys = {}
    /\ cf.id > 1

\* C9: within one add_tx(tx) every insertion of tx precedes the first
\* address-history notification of tx; no notification is published while
\* an insertion of the call is pending.
C9_PutsBeforePublish ==
    lastOp.op = "add_tx" =>
        \A i \in 1..Len(trace) :
            trace[i].kind = "publish" =>
              /\ \A j \in 1..Len(trace) : trace[j].kind = "put" => j < i
              /\ {trace[j].address : j \in 1..(i - 1)}
                     = GetAddresses(TxOf(lastOp.tx)).val

\* add_tx(T3) with an event bus: two insertions, then two notifications
C9_Witness ==
    /\ lastOp = Op("add_tx", "T3", <<>>)
    /\ pubsub
    /\ Len(trace) = 4
    /\ trace[2].kind = "put"
    /\ trace[3].kind = "publish"

\* C10: with an event bus, add_tx(tx) publishes exactly one notification
\* for each address of the address set it computed for tx and for no other
\* address; the published addresses are the addresses with inserted entries.
C10_PublishExactlyAddressSet ==
    (lastOp.op = "add_tx" /\ pubsub /\ ret.err = NoErr) =>
        LET published(a) == {i \in 1..Len(trace) :
                               trace[i].kind = "publish"
                               /\ trace[i].address = a}
            puts == {j \in 1..Len(trace) : trace[j].kind = "put"}
            inserted == {AddressOfKey(trace[j].key) : j \in puts}
        IN  /\ \A a \in GetAddresses(TxOf(lastOp.tx)).val :
                   Cardinality(published(a)) = 1
            /\ \A i \in 1..Len(trace) :
                   trace[i].kind = "publish" =>
                       /\ trace[i].address \in GetAddresses(TxOf(lastOp.tx)).val
                       /\ trace[i].tx = lastOp.tx
            /\ {trace[i].address : i \in
                  {j \in 1..Len(trace) : trace[j].kind = "publish"}} = inserted
            /\ \A j \in puts : trace[j].key \in Keys

\* add_tx(T3), whose address A comes from the output its input spends and
\* whose address B from its own output: one notification for each
C10_Witness ==
    /\ lastOp = Op("add_tx", "T3", <<>>)
    /\ pubsub
    /\ ret.err = NoErr
    /\ {trace[i].address : i \in 1..Len(trace)} = {AddrA, AddrB}
    /\ Cardinality({i \in 1..Len(trace) : trace[i].kind = "publish"}) = 2

\* C11: remove_tx(tx) never publishes a notification, with or without an
\* event bus: the call makes store deletions only; and when none of the
\* entries it deletes is stored, the index is what it was before the call.
C11_RemoveNeverPublishes ==
    lastOp.op = "remove_tx" =>
        /\ \A i \in 1..Len(trace) : trace[i].kind = "delete"
        /\ (\A i \in 1..Len(trace) : trace[i].key \notin keysBefore)
               => Keys = keysBefore
        /\ Keys \subseteq keysBefore

\* remove_tx(T3) on an index with an event bus that holds the two entries
\* of T3: both are deleted and nothing is published
C11_Witness ==
    /\ lastOp = Op("remove_tx", "T3", <<>>)
    /\ pubsub
    /\ ret.err = NoErr
    /\ Len(trace) = 2
    /\ Cardinality(keysBefore \ Keys) = 2

\* remove_tx(T1) on an index that does not hold the entry of T1
C11_WitnessAbsent ==
    /\ lastOp = Op("remove_tx", "T1", <<>>)
    /\ Len(trace) = 1
    /\ trace[1].key \notin keysBefore
    /\ keysBefore # {}

\* C12: a delivery to handle_tx_event about tx publishes address-history
\* notifications if and only if the voided_by latch or the spent_by latch
\* of the metadata of tx is set when the delivery reads it: nothing when
\* neither is set, otherwise one notification for each address of the
\* address set computed at the delivery.  The delivery leaves the store as
\* it is.
C12_PublishIffChanged ==
    [][lastOp'.op = "handle_tx_event" =>
         LET tx == TxOf(lastOp'.tx)
             m == meta[lastOp'.tx]
             changed == m.voided_by \/ m.spent_by
             published(a) == {i \in 1..Len(trace') : trace'[i].address = a}
         IN  /\ ret'.err = NoErr
             /\ \A i \in 1..Len(trace') :
                    /\ trace'[i].kind = "publish"
                    /\ trace'[i].tx = tx.name
                    /\ trace'[i].address \in GetAddresses(tx).val
             /\ (trace' # <<>>) <=> changed
             /\ changed => \A a \in GetAddresses(tx).val :
                               Cardinality(published(a)) = 1
             /\ families' = families
             /\ cf' = cf
      ]_vars

\* a delivery about T3 on an index that holds entries: one notification
\* for A, the address of the output T3 spends, and one for B
C12_Witness ==
    /\ lastOp = Op("handle_tx_event", "T3", <<>>)
    /\ {trace[i].address : i \in 1..Len(trace)} = {AddrA, AddrB}
    /\ Len(trace) = 2
    /\ Keys # {}
    /\ Keys = keysBefore

\* C13: when two deliveries about the same tx follow each other with no
\* change of its metadata between them, the second delivery publishes
\* nothing, also when voided_by and spent_by had both changed before the
\* first: a delivery reads and clears both latches.
C13_SecondDeliveryPublishesNothing ==
    (lastOp.op = "handle_tx_event" /\ repeated) => trace = <<>>

\* whether a list of hashes is in ascending order of the timestamp of their
\* transactions and, for equal timestamps, of the hash
InTimestampHashOrder(hashes) ==
    LET txAt(i) == CHOOSE t \in Storage : t.hash = hashes[i]
    IN  \A i, j \in 1..Len(hashes) :
            i < j =>
              \/ txAt(i).timestamp < txAt(j).timestamp
              \/ /\ txAt(i).timestamp = txAt(j).timestamp
                 /\ BytesLess(hashes[i], hashes[j])

\* C14: get_from_address(a) and get_sorted_from_address(a), called one
\* after the other on the same index in either order, return the same list
\* of hashes, in ascending order of timestamp and then of hash; neither
\* call changes the index or publishes.
C14_SameListSameOrder ==
    [][\A a \in Addresses :
         (\/ /\ lastOp = Op("get_from_address", "", a)
             /\ lastOp' = Op("get_sorted_from_address", "", a)
          \/ /\ lastOp = Op("get_sorted_from_address", "", a)
             /\ lastOp' = Op("get_from_address", "", a)) =>
            /\ ret'.err = NoErr
            /\ ret' = ret
            /\ Len(ret'.val) = Cardinality(KeysOfAddress(Keys, a))
            /\ InTimestampHashOrder(ret'.val)
            /\ families' = families
            /\ Keys = keysBefore
            /\ trace = <<>>
            /\ trace' = <<>>
      ]_vars

\* get_sorted_from_address(A) while A holds T2 (timestamp 50, hash ..02)
\* before T1 (timestamp 100, hash ..01): the order is not the order of the
\* hashes
C14_Witness ==
    /\ lastOp = Op("get_sorted_from_address", "", AddrA)
    /\ ret.val = <<T2.hash, T1.hash, T3.hash>>
    /\ Keys = keysBefore

\* the entries of a transaction: one key for each address of its address set
EntriesOf(tx) == {ToKey(a, tx).val : a \in GetAddresses(tx).val}

\* C15: after any sequence of add_tx and remove_tx calls on an index, the
\* stored keys are exactly the keys (address, timestamp, hash) of every
\* transaction whose most recent call was add_tx and every address of its
\* address set; remove_tx(T) deletes the entries of T only and leaves the
\* entries of other transactions under the same address in place.
C15_KeysAreAddedEntries ==
    /\ Keys = UNION {EntriesOf(TxOf(n)) : n \in added}
    /\ (lastOp.op = "remove_tx" /\ ret.err = NoErr) =>
           /\ keysBefore \ Keys \subseteq EntriesOf(TxOf(lastOp.tx))
           /\ \A n \in added :
                  EntriesOf(TxOf(n)) \subseteq Keys

\* remove_tx(T1) on an index where A holds T1, T2 and T3: the entries of
\* T2 and T3 under A stay
C15_Witness ==
    /\ lastOp = Op("remove_tx", "T1", <<>>)
    /\ Cardinality(KeysOfAddress(keysBefore, AddrA)) = 3
    /\ Cardinality(KeysOfAddress(Keys, AddrA)) = 2
    /\ added = {"T2", "T3"}

\* the addresses that occur in a script of the universe
ScriptAddresses ==
    UNION {{t.outputs[o].script.address : o \in 1..Len(t.outputs)} :
           t \in Txs}

\* whether every input of tx references a transaction of the ledger store
InputsResolve(tx) ==
    \A i \in 1..Len(tx.inputs) :
        \E t \in Storage : t.hash = tx.inputs[i].tx_id

\* the addresses of tx by definition: of the outputs of tx that parse, and of
\* the output each input of tx consumes
ExpectedAddresses(tx) ==
    {a \in ScriptAddresses :
        \/ \E o \in 1..Len(tx.outputs) :
             /\ tx.outputs[o].script.parses
             /\ tx.outputs[o].script.address = a
        \/ \E i \in 1..Len(tx.inputs) : \E t \in Storage :
             /\ t.hash = tx.inputs[i].tx_id
             /\ t.outputs[tx.inputs[i].index + 1].script.parses
             /\ t.outputs[tx.inputs[i].index + 1].script.address = a}

\* C16: the address set add_tx and remove_tx compute for tx is exactly the
\* set of the addresses of the outputs of tx whose script parses and of the
\* output of the referenced transaction that each input consumes, each
\* address once; an output whose script does not parse adds no address and
\* makes no call fail.
C16_AddressesOf ==
    (/\ lastOp.op \in {"add_tx", "remove_tx"}
     /\ TxOf(lastOp.tx).hash # None
     /\ InputsResolve(TxOf(lastOp.tx))) =>
        LET stores == {i \in 1..Len(trace) :
                         trace[i].kind \in {"put", "delete"}}
        IN  /\ ret.err = NoErr
            /\ {trace[i].address : i \in stores}
                   = ExpectedAddresses(TxOf(lastOp.tx))
            /\ Cardinality(stores)
                   = Cardinality(ExpectedAddresses(TxOf(lastOp.tx)))

\* add_tx(T2), whose first output holds a script that does not parse: the
\* call succeeds with the one entry of the second output
C16_Witness ==
    /\ lastOp = Op("add_tx", "T2", <<>>)
    /\ ret.err = NoErr
    /\ {trace[i].address : i \in 1..Len(trace)} = {AddrA}
    /\ Cardinality({i \in 1..Len(trace) : trace[i].kind = "put"}) = 1

\* C17: when an input of tx references a transaction the ledger store does
\* not resolve, add_tx(tx) and remove_tx(tx) raise the error of the lookup;
\* the address extraction runs before any store call, so the index is
\* unchanged and nothing is published.
C17_MissingReferenceIsFatal ==
    (/\ lastOp.op \in {"add_tx", "remove_tx"}
     /\ TxOf(lastOp.tx).hash # None
     /\ ~InputsResolve(TxOf(lastOp.tx))) =>
        /\ ret.err = "TransactionDoesNotExist"
        /\ trace = <<>>
        /\ Keys = keysBefore

\* add_tx(T6), whose input references a hash the ledger store does not
\* hold, on an index with an event bus and entries
C17_Witness ==
    /\ lastOp = Op("add_tx", "T6", <<>>)
    /\ ret.err = "TransactionDoesNotExist"
    /\ pubsub
    /\ Keys # {}

\* C18: add_tx and remove_tx of a transaction without a hash raise the
\* assertion error of their first statement, before any store call: the
\* index is unchanged and nothing is published.
C18_NoIdentityIsRejected ==
    (/\ lastOp.op \in {"add_tx", "remove_tx"}
     /\ TxOf(lastOp.tx).hash = None) =>
        /\ ret.err = "AssertionError"
        /\ trace = <<>>
        /\ Keys = keysBefore

\* add_tx(T5), which has no hash, on an index with an event bus and entries
C18_Witness ==
    /\ lastOp = Op("add_tx", "T5", <<>>)
    /\ ret.err = "AssertionError"
    /\ pubsub
    /\ Keys # {}

\* C19: on an index constructed without an event bus no subscription is
\* made, so no event is delivered to it, and publish_tx does nothing:
\* add_tx inserts every entry of the transaction and no call of any
\* sequence of operations publishes a notification.
C19_NoBusNoNotification ==
    ~pubsub =>
        /\ subscribed = {}
        /\ lastOp.op # "handle_tx_event"
        /\ \A i \in 1..Len(trace) : trace[i].kind # "publish"
        /\ lastOp.op = "add_tx" =>
               /\ ret.err = NoErr
               /\ EntriesOf(TxOf(lastOp.tx)) \subseteq Keys
               /\ {trace[i].key : i \in 1..Len(trace)}
                      = EntriesOf(TxOf(lastOp.tx))

\* add_tx(T3) on an index without an event bus: the two entries are
\* inserted and that is all the call does
C19_Witness ==
    /\ ~pubsub
    /\ lastOp = Op("add_tx", "T3", <<>>)
    /\ Len(trace) = 2
    /\ Cardinality(Keys \ keysBefore) = 2
    /\ meta["T3"].voided_by
====
